---- MODULE Spec2Model ----
(***************************************************************************)
(* Model of the local OAuth/PKCE authorization-code flow of ii-client:     *)
(* oauth-server.ts (startOAuthFlow, handleCallback, cleanup,               *)
(* cancelOAuthFlow, isOAuthFlowInProgress, findAvailablePort) and the      *)
(* token-exchange client of oauth-utils.ts.                                *)
(*                                                                         *)
(* One step of the model is one run-to-completion turn of the Node event   *)
(* loop: the synchronous code of a call or handler up to its next await.   *)
(***************************************************************************)
EXTENDS Integers, Sequences, FiniteSets, TLC

\* ------------------------------------------------------------------ bounds
MaxFlows == 2
MaxPorts == 2
MaxExchanges == 2

\* --------------------------------------------------------------- constants
PortMin == 21300
PortMax == PortMin + MaxPorts - 1

Flows == 1 .. MaxFlows
Ports == PortMin .. PortMax

\* A nullable value is a sequence of length at most one: Null is JavaScript's
\* null/undefined, Some(x) is the value x.
Null == << >>
Some(x) == << x >>

VARIABLES
  oauthState,   \* the module-level session record
  pc,           \* per startOAuthFlow call: how far its promise executor has run
  probe,        \* per call: the transient probe listener of checkPortAvailable
  listener,     \* per call: the callback server created by createOAuthServer
  timer,        \* per call: whether the timeout armed by setTimeout is pending
  promise,      \* per call: the promise returned by startOAuthFlow
  invoked,      \* per call: how many times its resolve/reject pair was called
  fetches,      \* token-exchange requests in flight, numbered per verifier
  issued,       \* per call: token-exchange requests issued with its verifier
  extBusy,      \* ports held by other processes
  quiet,        \* a timeout has fired and startOAuthFlow was not called since
  opened,       \* per call: the URL it gave to shell.openExternal, until the
                \* system browser has taken it
  now,          \* Date.now(), in milliseconds
  secure,       \* safeStorage.isEncryptionAvailable()
  table,        \* the rows of the claude_code_credentials table
  last,         \* the last call of a token utility or of a router procedure
  returned,     \* per call: the startLocalAuth mutation awaiting it has returned
  setup         \* the runClaudeSetupToken call: its promise and its poll timer

\* The variables of the token utilities, of the credential store and of the
\* router's procedures.
utilVars == << now, secure, table, last, returned, setup >>

vars == << oauthState, pc, probe, listener, timer, promise, invoked,
           fetches, issued, extBusy, quiet, opened, now, secure, table, last,
           returned, setup >>

\* ------------------------------------------------------------------ values
\* The random CSRF state string of a call (crypto.randomBytes(32), base64url).
StateOf(f) == "state" \o ToString(f)

\* generatePKCE(): the random verifier and its challenge, named by the call that
\* drew them.
generatePKCE(f) == [ verifier |-> f, challenge |-> f ]

NullState ==
  [ server |-> Null, port |-> Null, pkce |-> Null, state |-> Null,
    resolveCallback |-> Null, rejectCallback |-> Null, timeoutId |-> Null ]

NoProbe == [ port |-> PortMin, ok |-> FALSE ]
\* A callback server: never bound (or failed to bind), bound to a port, closed.
NoListener == [ st |-> "none", port |-> PortMin ]
Closed == [ st |-> "closed", port |-> PortMin ]
Bound(p) == [ st |-> "bound", port |-> p ]
NoTokens == [ accessToken |-> "" ]
\* No URL is on its way to the system browser: by the next turn of the event
\* loop the browser has taken what shell.openExternal was given.
NoneOpened == [ f \in Flows |-> Null ]
NoPromise == [ status |-> "none", value |-> NoTokens, error |-> << >> ]

\* Token sets a successful exchange may return.
TokenSets == { [ accessToken |-> "tokenA" ], [ accessToken |-> "tokenB" ] }

\* Non-success answers of the token endpoint.
HttpErrors == { [ status |-> "400", body |-> "invalid_grant" ],
                [ status |-> "500", body |-> "server_error" ] }

Responses ==
  { [ ok |-> TRUE, tokens |-> t, status |-> "200", body |-> "" ] : t \in TokenSets }
  \cup
  { [ ok |-> FALSE, tokens |-> NoTokens, status |-> h.status, body |-> h.body ] :
      h \in HttpErrors }

\* Error messages, as the sequence of their fragments.
ErrCancelled == << "OAuth flow cancelled" >>
ErrTimeout == << "OAuth flow timed out after 5 minutes" >>
ErrCsrf == << "Invalid state parameter - possible CSRF attack" >>
ErrNoCode == << "Missing authorization code" >>
ErrNotInitialized == << "OAuth state not initialized" >>
ErrNoPorts == << "No available ports in range" >>
ErrServer == << "Failed to start OAuth server: ", "EADDRINUSE" >>
ErrOpenExternal == << "openExternal failed" >>
ErrExchange(status, body) == << "Token exchange failed: ", status, " - ", body >>

\* The query strings of a /callback request.
Codes == { Null, Some(<< >>), Some(<< "c" >>), Some(<< "c", "#", "x" >>) }
StateParams == { Null, Some(""), Some("forged") } \cup { Some(StateOf(f)) : f \in Flows }
ErrorParams == { Null, Some(""), Some("access_denied") }
DescParams == { Null, Some("User denied access") }
Queries ==
  [ code : Codes, state : StateParams, error : ErrorParams,
    error_description : DescParams ]

\* The static configuration of oauth-utils.ts.
OAUTH_CLIENT_ID == "9d1c250a-e61b-44d9-88ed-5944d1962f5e"
OAUTH_SCOPES == "org:create_api_key user:profile user:inference"

\* `http://localhost:${port}/callback`
RedirectUri(port) == << "http://localhost:", port, "/callback" >>

\* An authorization URL whose redirect_uri always names the first port of the
\* range.
AuthorizationUrlFirstPort(port, state, pkce) ==
  [ client_id |-> OAUTH_CLIENT_ID, response_type |-> "code",
    redirect_uri |-> RedirectUri(PortMin), scope |-> OAUTH_SCOPES,
    state |-> state, code_challenge |-> pkce.challenge,
    code_challenge_method |-> "S256" ]

\* The query parameters of the authorization URL startOAuthFlow opens.
AuthorizationUrl(port, state, pkce) ==
  [ client_id |-> OAUTH_CLIENT_ID, response_type |-> "code",
    redirect_uri |-> RedirectUri(port), scope |-> OAUTH_SCOPES,
    state |-> state, code_challenge |-> pkce.challenge,
    code_challenge_method |-> "S256" ]

\* No utility or procedure has been called yet.
NoCall == [ op |-> "none", at |-> 0, arg |-> << >>, out |-> << >> ]

\* runClaudeSetupToken has not been called: no promise, no interval timer, no
\* status message, no system credential to read, no terminal spawned.
\* runClaudeSetupToken before it is called: checkInterval, attempts, what the
\* promise was resolved with, the messages given to onStatus, the child
\* process, and the access token of the credentials the system sources hold.
NoSetup ==
  [ interval |-> FALSE, attempts |-> 0, result |-> Null, statuses |-> << >>,
    child |-> "none", creds |-> Null ]

\* ----------------------------------------------------------- program state
\* The part of the state that cleanup and the resolver/rejecter act on.
Mem ==
  [ os |-> oauthState, ls |-> listener, tm |-> timer, pr |-> promise,
    inv |-> invoked ]

Commit(m) ==
  /\ oauthState' = m.os
  /\ listener' = m.ls
  /\ timer' = m.tm
  /\ promise' = m.pr
  /\ invoked' = m.inv

\* A cleanup that stops the timer and nulls every field but leaves the
\* session's server listening.
cleanupKeepsServer(m) ==
  LET os == m.os
      tm1 == IF os.timeoutId # Null
             THEN [ m.tm EXCEPT ![os.timeoutId[1]] = FALSE ]
             ELSE m.tm
  IN  [ m EXCEPT !.tm = tm1, !.os = NullState ]

\* A cleanup that closes the server and nulls every field but leaves the
\* session's timeout armed.
cleanupKeepsTimer(m) ==
  LET os == m.os
      ls1 == IF os.server # Null /\ m.ls[os.server[1]].st = "bound"
             THEN [ m.ls EXCEPT ![os.server[1]] = Closed ]
             ELSE m.ls
  IN  [ m EXCEPT !.ls = ls1, !.os = NullState ]

\* cleanup(): stop the session's timer, close its server, null every field.
cleanup(m) ==
  LET os == m.os
      tm1 == IF os.timeoutId # Null
             THEN [ m.tm EXCEPT ![os.timeoutId[1]] = FALSE ]
             ELSE m.tm
      ls1 == IF os.server # Null /\ m.ls[os.server[1]].st = "bound"
             THEN [ m.ls EXCEPT ![os.server[1]] = Closed ]
             ELSE m.ls
  IN  [ m EXCEPT !.tm = tm1, !.ls = ls1, !.os = NullState ]

\* The promise's reject function: a settled promise ignores it.
reject(m, f, err) ==
  [ m EXCEPT !.inv[f] = @ + 1,
             !.pr[f] = IF @.status = "pending"
                       THEN [ status |-> "rejected", value |-> NoTokens, error |-> err ]
                       ELSE @ ]

\* The promise's resolve function.
resolve(m, f, tokens) ==
  [ m EXCEPT !.inv[f] = @ + 1,
             !.pr[f] = IF @.status = "pending"
                       THEN [ status |-> "resolved", value |-> tokens, error |-> << >> ]
                       ELSE @ ]

\* oauthState.rejectCallback?.(new Error(message))
rejectCallback(m, err) ==
  IF m.os.rejectCallback # Null THEN reject(m, m.os.rejectCallback[1], err) ELSE m

\* oauthState.resolveCallback?.(tokens)
resolveCallback(m, tokens) ==
  IF m.os.resolveCallback # Null THEN resolve(m, m.os.resolveCallback[1], tokens) ELSE m

\* isOAuthFlowInProgress()
isOAuthFlowInProgress == oauthState.server # Null

\* Whether binding port p fails with EADDRINUSE, given the callback servers ls:
\* another process, a bound callback server or another call's probe holds it.
PortInUse(ls, p, self) ==
  \/ p \in extBusy
  \/ \E g \in Flows : ls[g].st = "bound" /\ ls[g].port = p
  \/ \E g \in Flows \ { self } : pc[g] = "alloc" /\ probe[g].ok /\ probe[g].port = p

\* checkPortAvailable(port): the transient listener binds when listen is called
\* and holds the port until its close callback reports the result.
checkPortAvailable(ls, p, self) == [ port |-> p, ok |-> ~PortInUse(ls, p, self) ]

Init ==
  /\ oauthState = NullState
  /\ pc = [ f \in Flows |-> "idle" ]
  /\ probe = [ f \in Flows |-> NoProbe ]
  /\ listener = [ f \in Flows |-> NoListener ]
  /\ timer = [ f \in Flows |-> FALSE ]
  /\ promise = [ f \in Flows |-> NoPromise ]
  /\ invoked = [ f \in Flows |-> 0 ]
  /\ fetches = { }
  /\ issued = [ f \in Flows |-> 0 ]
  /\ extBusy \in { { }, { PortMin }, Ports }
  /\ quiet = FALSE
  /\ opened = NoneOpened
  /\ now = 0
  /\ secure = TRUE
  /\ table = { }
  /\ last = NoCall
  /\ returned = [ f \in Flows |-> FALSE ]
  /\ setup = NoSetup

\* ----------------------------------------------------------------- actions
\* startOAuthFlow(timeoutMs), up to the first await of findAvailablePort:
\* cleanup(), the new promise, and the first probe's listen.
startOAuthFlow(f) ==
  /\ pc[f] = "idle"
  /\ \A g \in Flows : g < f => pc[g] # "idle"
  /\ LET m1 == cleanup(Mem)
         m2 == [ m1 EXCEPT !.pr[f] = [ NoPromise EXCEPT !.status = "pending" ] ]
     IN  /\ Commit(m2)
         /\ probe' = [ probe EXCEPT ![f] = checkPortAvailable(m1.ls, PortMin, f) ]
  /\ pc' = [ pc EXCEPT ![f] = "alloc" ]
  /\ quiet' = FALSE
  /\ UNCHANGED << fetches, issued, extBusy >>
  /\ opened' = NoneOpened
  /\ UNCHANGED utilVars

\* findAvailablePort: the probe reported false and the loop probes the next port.
ProbeNextPort(f) ==
  /\ pc[f] = "alloc"
  /\ ~probe[f].ok
  /\ probe[f].port < PortMax
  /\ probe' = [ probe EXCEPT ![f] = checkPortAvailable(listener, probe[f].port + 1, f) ]
  /\ UNCHANGED << oauthState, pc, listener, timer, promise, invoked, fetches,
                  issued, extBusy, quiet >>
  /\ opened' = NoneOpened
  /\ UNCHANGED utilVars

\* A findAvailablePort that throws at the first probe that reports false,
\* without trying the ports that remain.
GiveUpAtFirstBusyPort(f) ==
  /\ pc[f] = "alloc"
  /\ ~probe[f].ok
  /\ Commit(reject(cleanup(Mem), f, ErrNoPorts))
  /\ pc' = [ pc EXCEPT ![f] = "done" ]
  /\ probe' = [ probe EXCEPT ![f] = NoProbe ]
  /\ UNCHANGED << fetches, issued, extBusy, quiet >>
  /\ opened' = NoneOpened
  /\ UNCHANGED utilVars

\* findAvailablePort: the last probe reported false; the throw is caught by
\* startOAuthFlow's catch block.
NoAvailablePort(f) ==
  /\ pc[f] = "alloc"
  /\ ~probe[f].ok
  /\ probe[f].port = PortMax
  /\ Commit(reject(cleanup(Mem), f, ErrNoPorts))
  /\ pc' = [ pc EXCEPT ![f] = "done" ]
  /\ probe' = [ probe EXCEPT ![f] = NoProbe ]
  /\ UNCHANGED << fetches, issued, extBusy, quiet >>
  /\ opened' = NoneOpened
  /\ UNCHANGED utilVars

\* startOAuthFlow after findAvailablePort returned: store the session, listen,
\* arm the timeout, call shell.openExternal with the authorization URL.
\* `seized` is another process taking the port between the probe's close and
\* the server's listen; the server's error handler then runs before any other
\* event.
PortAllocated(f, seized) ==
  /\ pc[f] = "alloc"
  /\ probe[f].ok
  /\ LET port == probe[f].port
         busy == seized \/ PortInUse(listener, port, f)
         m1 == [ Mem EXCEPT
                   !.os = [ server |-> Some(f), port |-> Some(port),
                            pkce |-> Some(generatePKCE(f)),
                            state |-> Some(StateOf(f)),
                            resolveCallback |-> Some(f),
                            rejectCallback |-> Some(f),
                            timeoutId |-> Null ],
                   !.ls[f] = IF busy THEN NoListener ELSE Bound(port) ]
         m2 == [ m1 EXCEPT !.tm[f] = TRUE, !.os.timeoutId = Some(f) ]
         m3 == IF busy THEN reject(cleanup(m2), f, ErrServer) ELSE m2
     IN  /\ Commit(m3)
         /\ extBusy' = IF seized THEN extBusy \cup { port } ELSE extBusy
  /\ pc' = [ pc EXCEPT ![f] = "opening" ]
  /\ probe' = [ probe EXCEPT ![f] = NoProbe ]
  /\ opened' = [ NoneOpened EXCEPT
                   ![f] = Some(AuthorizationUrl(probe[f].port, StateOf(f),
                                                generatePKCE(f))) ]
  /\ UNCHANGED << fetches, issued, quiet >>
  /\ UNCHANGED utilVars

\* shell.openExternal rejects and the executor's catch block runs. When it
\* resolves instead the executor ends with nothing left to do, which is no step:
\* pc stays "opening".
OpenExternalFails(f) ==
  /\ pc[f] = "opening"
  /\ pc' = [ pc EXCEPT ![f] = "done" ]
  /\ Commit(reject(cleanup(Mem), f, ErrOpenExternal))
  /\ UNCHANGED << probe, fetches, issued, extBusy, quiet >>
  /\ opened' = NoneOpened
  /\ UNCHANGED utilVars

\* The setTimeout callback of a call.
TimeoutFire(f) ==
  /\ timer[f]
  /\ Commit(reject(cleanup([ Mem EXCEPT !.tm[f] = FALSE ]), f, ErrTimeout))
  /\ quiet' = TRUE
  /\ UNCHANGED << pc, probe, fetches, issued, extBusy >>
  /\ opened' = NoneOpened
  /\ UNCHANGED utilVars

\* cancelOAuthFlow()
cancelOAuthFlow ==
  /\ Commit(cleanup(rejectCallback(Mem, ErrCancelled)))
  /\ UNCHANGED << pc, probe, fetches, issued, extBusy, quiet >>
  /\ opened' = NoneOpened
  /\ UNCHANGED utilVars

\* ------------------------------------------------------- callback handling
\* JavaScript truthiness of a string|null query parameter.
Truthy(x) == x # Null /\ x[1] # ""

\* The same for the code parameter, whose string is kept as its characters.
TruthyCode(x) == x # Null /\ x[1] # << >>

\* errorDescription || error
Message(q) == IF Truthy(q.error_description) THEN q.error_description[1] ELSE q.error[1]

\* code.includes("#") ? code.split("#")[0] : code
RECURSIVE BeforeHash(_)
BeforeHash(s) ==
  IF s = << >> \/ Head(s) = "#" THEN << >> ELSE << Head(s) >> \o BeforeHash(Tail(s))

\* A validation chain that leaves out the comparison of the state parameter
\* with the session's state token.
ValidateNoCsrf(q, os) ==
  IF Truthy(q.error) THEN "error"
  ELSE IF ~TruthyCode(q.code) THEN "nocode"
  ELSE "exchange"

\* A validation chain that only requires the state parameter to be present.
ValidateStatePresent(q, os) ==
  IF Truthy(q.error) THEN "error"
  ELSE IF ~Truthy(q.state) THEN "csrf"
  ELSE IF ~TruthyCode(q.code) THEN "nocode"
  ELSE "exchange"

\* The validation chain of handleCallback, in the order of the code: which
\* branch a request with query q takes when the session record is os.
Validate(q, os) ==
  IF Truthy(q.error) THEN "error"
  ELSE IF ~Truthy(q.state) \/ q.state # os.state THEN "csrf"
  ELSE IF ~TruthyCode(q.code) THEN "nocode"
  ELSE "exchange"

\* The error a request that fails validation settles the flow with.
ValidationError(q, v) ==
  IF v = "error" THEN << Message(q) >>
  ELSE IF v = "csrf" THEN ErrCsrf
  ELSE ErrNoCode

\* An exchange request built from the verifier and the port of the first
\* session of the process instead of those of the session record.
ExchangeRequestFirstSession(n, code, os) ==
  [ n |-> n, code |-> code, codeVerifier |-> generatePKCE(1).verifier,
    port |-> PortMin ]

\* exchangeCodeForTokens / exchangeAuthorizationCode: the request sent to the
\* token endpoint, built from the session record at the time of the call.
ExchangeRequest(n, code, os) ==
  [ n |-> n, code |-> code, codeVerifier |-> os.pkce[1].verifier,
    port |-> os.port[1] ]

\* What handleCallback does with a request: the branch taken, the error of a
\* failed validation and the code sent to the token endpoint.
Outcome(q, os) ==
  LET v == Validate(q, os)
  IN  [ v |-> v,
        err |-> IF v = "exchange" THEN << >> ELSE ValidationError(q, v),
        authCode |-> IF v = "exchange" THEN BeforeHash(q.code[1]) ELSE << >> ]

\* The number of token-exchange requests issued so far.
RECURSIVE SumIssued(_)
SumIssued(n) == IF n = 0 THEN 0 ELSE issued[n] + SumIssued(n - 1)

TotalIssued == SumIssued(MaxFlows)

\* handleCallback, up to the await of the token exchange, for a request whose
\* outcome is r. The handler reads only the module-level record; the request
\* comes in on a bound server, or on a connection a server accepted before it
\* was closed.
Handle(r) ==
  /\ { f \in Flows : listener[f].st \in { "bound", "closed" } } # { }
  /\ r.v = "exchange" => TotalIssued < MaxExchanges
  /\ IF r.v # "exchange"
     THEN /\ Commit(rejectCallback(cleanup(Mem), r.err))
          /\ UNCHANGED << fetches, issued >>
     ELSE IF oauthState.pkce = Null \/ oauthState.port = Null
     THEN /\ Commit(rejectCallback(cleanup(Mem), ErrNotInitialized))
          /\ UNCHANGED << fetches, issued >>
     ELSE /\ fetches' = fetches \cup
               { ExchangeRequest(issued[oauthState.pkce[1].verifier] + 1,
                                 r.authCode, oauthState) }
          /\ issued' = [ issued EXCEPT ![oauthState.pkce[1].verifier] = @ + 1 ]
          /\ UNCHANGED << oauthState, listener, timer, promise, invoked >>
  /\ UNCHANGED << pc, probe, extBusy, quiet >>
  /\ opened' = NoneOpened
  /\ UNCHANGED utilVars

\* handleCallback for a /callback request with query q.
handleCallback(q) == Handle(Outcome(q, oauthState))

\* The program state handleCallback leaves after the await, when the token
\* endpoint answered with r.
AfterExchange(r) ==
  IF r.ok
  THEN resolveCallback(cleanup(Mem), r.tokens)
  ELSE rejectCallback(cleanup(Mem), ErrExchange(r.status, r.body))

\* The continuation of handleCallback for request e, leaving program state m.
Resume(e, m) ==
  /\ e \in fetches
  /\ fetches' = fetches \ { e }
  /\ Commit(m)
  /\ UNCHANGED << pc, probe, issued, extBusy, quiet >>
  /\ opened' = NoneOpened
  /\ UNCHANGED utilVars

\* handleCallback after the await: the token endpoint answered request e with r.
ExchangeReturn(e, r) == Resume(e, AfterExchange(r))

\* The outcomes the /callback requests can have, by the state token of the
\* session record, the one field of the record the validation reads.
Outcomes ==
  [ st \in { Null } \cup { Some(StateOf(f)) : f \in Flows } |->
      { Outcome(q, [ state |-> st ]) : q \in Queries } ]

\* Some /callback request is handled.
Callback == \E r \in Outcomes[oauthState.state] : Handle(r)

\* Some outstanding token exchange returns.
ExchangeDone ==
  \E e \in fetches, m \in { AfterExchange(r) : r \in Responses } : Resume(e, m)

\* ----------------------------------------------------------- specification
Next ==
  \/ \E f \in Flows : startOAuthFlow(f)
  \/ \E f \in Flows : ProbeNextPort(f)
  \/ \E f \in Flows : NoAvailablePort(f)
  \/ \E f \in Flows, seized \in BOOLEAN : PortAllocated(f, seized)
  \/ \E f \in Flows : OpenExternalFails(f)
  \/ \E f \in Flows : TimeoutFire(f)
  \/ cancelOAuthFlow
  \/ Callback
  \/ ExchangeDone

Spec == Init /\ [][Next]_vars

\* Armed timers fire, port probes report and outstanding HTTP calls return;
\* nothing obliges shell.openExternal to fail, a user to start or cancel a flow
\* or a browser to send a request.
Fairness ==
  /\ \A f \in Flows : WF_vars(ProbeNextPort(f))
  /\ \A f \in Flows : WF_vars(NoAvailablePort(f))
  /\ \A f \in Flows : WF_vars(PortAllocated(f, FALSE))
  /\ \A f \in Flows : WF_vars(TimeoutFire(f))
  /\ WF_vars(ExchangeDone)

FairSpec == Spec /\ Fairness

\* ------------------------------------------------------------------ claims
Pending(f) == promise[f].status = "pending"
Settled(f) == promise[f].status \in { "resolved", "rejected" }
Resolved(tokens) == [ status |-> "resolved", value |-> tokens, error |-> << >> ]
Rejected(err) == [ status |-> "rejected", value |-> NoTokens, error |-> err ]

\* The session record is that of call f: f's resolver and rejecter are pending.
ActiveSession(f) ==
  /\ oauthState.resolveCallback = Some(f)
  /\ oauthState.rejectCallback = Some(f)
  /\ oauthState.state = Some(StateOf(f))

\* C1: when the token exchange of a validated callback succeeds while its
\* session is still the active one, the promise returned by startOAuthFlow for
\* that session is resolved with the token set the exchange returned.
C1_ExchangeSuccessResolves ==
  [][ \A e \in fetches, r \in Responses :
        ( /\ ExchangeReturn(e, r)
          /\ r.ok
          /\ ActiveSession(e.codeVerifier)
          /\ Pending(e.codeVerifier) )
        => promise'[e.codeVerifier] = Resolved(r.tokens) ]_vars

\* C2: every promise returned by startOAuthFlow is eventually settled, given
\* that armed timers fire and outstanding calls return.
C2_EveryFlowSettles ==
  \A f \in Flows : [](Pending(f) => <>Settled(f))

\* C3: the resolver/rejecter pair of a session is invoked at most once.
C3_SettledAtMostOnce ==
  \A f \in Flows : invoked[f] <= 1

\* C4: at most one callback listener is bound at any time.
C4_AtMostOneListener ==
  Cardinality({ f \in Flows : listener[f].st = "bound" }) <= 1

\* A request the claims call valid: no error parameter, a state parameter equal
\* to the csrfState of the active session, and a code. A parameter given with
\* an empty value counts as not given, as in the handler's own tests.
ValidCallback(q) ==
  /\ ~Truthy(q.error)
  /\ q.state # Null
  /\ oauthState.state # Null
  /\ q.state = oauthState.state
  /\ TruthyCode(q.code)

C6_InvalidCallbackRejects ==
  [][ \A f \in Flows, q \in Queries :
        ( /\ handleCallback(q)
          /\ ~ValidCallback(q)
          /\ ActiveSession(f)
          /\ Pending(f) )
        => promise'[f] =
             Rejected(IF Truthy(q.error) THEN << Message(q) >>
                      ELSE IF q.state = Null \/ q.state # oauthState.state THEN ErrCsrf
                      ELSE ErrNoCode) ]_vars

\* C7: when the token exchange of a validated callback fails with a non-success
\* HTTP status, its session's promise is rejected with an error whose message
\* contains the status code and the response body.
C7_ExchangeFailureRejects ==
  [][ \A e \in fetches, r \in Responses :
        ( /\ ExchangeReturn(e, r)
          /\ ~r.ok
          /\ ActiveSession(e.codeVerifier)
          /\ Pending(e.codeVerifier) )
        => /\ promise'[e.codeVerifier].status = "rejected"
           /\ \E i \in DOMAIN promise'[e.codeVerifier].error :
                promise'[e.codeVerifier].error[i] = r.status
           /\ \E i \in DOMAIN promise'[e.codeVerifier].error :
                promise'[e.codeVerifier].error[i] = r.body ]_vars

\* C8: the completion of a token exchange whose session is no longer the active
\* one (cancelled, timed out or superseded) is discarded: it settles no promise
\* and leaves the session record, the listeners and the timers as they are.
C8_StaleExchangeDiscarded ==
  [][ \A e \in fetches, r \in Responses :
        ( /\ ExchangeReturn(e, r)
          /\ ~ActiveSession(e.codeVerifier) )
        => UNCHANGED << oauthState, listener, timer, promise, invoked >> ]_vars

\* C9: at most one token-exchange request is issued per session.
C9_OneExchangePerSession ==
  \A f \in Flows : issued[f] <= 1

\* C10: when a flow's timeout fires its promise is rejected with the timeout
\* error, and isOAuthFlowInProgress() is false from then on until
\* startOAuthFlow is called again.
C10_TimeoutRejectsAndIdle ==
  /\ [][ \A f \in Flows :
           (TimeoutFire(f) /\ Pending(f)) => promise'[f] = Rejected(ErrTimeout) ]_vars
  /\ [](quiet => ~isOAuthFlowInProgress)

C12_NothingSurvivesTerminal ==
  \A f \in Flows : Settled(f) => listener[f].st # "bound" /\ ~timer[f]

\* C13: in every reachable state isOAuthFlowInProgress() is true if and only if
\* a callback listener created by startOAuthFlow is bound for a session that
\* has not ended (its promise is pending).
C13_InProgressIffListenerBound ==
  isOAuthFlowInProgress <=> \E f \in Flows : listener[f].st = "bound" /\ Pending(f)

\* The session of call f was stored and has been torn down: the session record
\* no longer carries f's state token.
TornDown(f) ==
  /\ pc[f] \in { "opening", "done" }
  /\ oauthState.state # Some(StateOf(f))

\* C14: a csrfState is single-use: once its session has been torn down, a
\* /callback request replaying that state with a valid code fails: it causes no
\* token exchange and resolves no flow.
C14_StateSingleUse ==
  [][ ( \/ issued' # issued
        \/ ~(fetches' \subseteq fetches)
        \/ \E g \in Flows :
             promise'[g].status = "resolved" /\ promise[g].status # "resolved" )
      => \A f \in Flows, q \in Queries :
           ~( /\ TornDown(f)
              /\ q.state = Some(StateOf(f))
              /\ TruthyCode(q.code)
              /\ handleCallback(q) ) ]_vars

\* C14 witness: the state of a call was used for one exchange, which has
\* returned, its session is torn down, and the server that accepted the
\* replayed request is closed.
C14_Witness ==
  \E f \in Flows :
    /\ TornDown(f)
    /\ issued[f] = 1
    /\ \A e \in fetches : e.codeVerifier # f
    /\ listener[f].st = "closed"
    /\ oauthState = NullState

\* C15: cancelOAuthFlow() called in any state leaves the session record fully
\* cleared: the record's timer is stopped, its listener is closed and every
\* field is null; and when no rejecter is pending it rejects nothing.
C15_CancelClearsRecord ==
  [][ cancelOAuthFlow
      => /\ oauthState' = NullState
         /\ oauthState.timeoutId # Null => ~timer'[oauthState.timeoutId[1]]
         /\ oauthState.server # Null => listener'[oauthState.server[1]].st # "bound"
         /\ oauthState.rejectCallback = Null
              => promise' = promise /\ invoked' = invoked ]_vars

\* C15 witness: a flow cancelled while its token exchange was in flight.
C15_Witness ==
  \E e \in fetches :
    /\ promise[e.codeVerifier] = Rejected(ErrCancelled)
    /\ ~timer[e.codeVerifier]
    /\ listener[e.codeVerifier].st = "closed"
    /\ oauthState = NullState

\* ---------------------------------------------------------- token utilities
MaxNow == 1
MaxSkew == 1
MaxExpiresIn == 1
MaxTokenLen == 1

\* bufferMs of isTokenExpired: five minutes.
BufferMs == 300000

\* isTokenExpired(expiresAt) when Date.now() is t. !expiresAt holds for
\* undefined and for 0.
isTokenExpired(t, expiresAt) ==
  IF expiresAt = Null \/ expiresAt = Some(0)
  THEN FALSE
  ELSE t + BufferMs >= expiresAt[1]

\* The expiry timestamps a caller may pass when Date.now() is t: absent, around
\* the epoch and around the end of the buffer.
Expiries(t) ==
  { Null } \cup { Some(x) : x \in (0 - MaxSkew) .. MaxSkew }
           \cup { Some(t + BufferMs + d) : d \in (0 - MaxSkew) .. MaxSkew }

\* The JSON body of a successful token response.
TokenResponse ==
  [ access_token : { "tokenA" },
    refresh_token : { Null, Some(""), Some("refreshB") },
    expires_in : { Null } \cup { Some(n) : n \in 0 .. MaxExpiresIn } ]

\* data.expires_in ? Date.now() + data.expires_in * 1000 : undefined
ExpiresAt(data, t) ==
  IF data.expires_in # Null /\ data.expires_in[1] # 0
  THEN Some(t + data.expires_in[1] * 1000)
  ELSE Null

\* The token set exchangeAuthorizationCode returns for response body data.
exchangeAuthorizationCode(data, t) ==
  [ accessToken |-> data.access_token,
    refreshToken |-> data.refresh_token,
    expiresAt |-> ExpiresAt(data, t) ]

\* The token set refreshOAuthToken(refreshToken) returns for response body data.
refreshOAuthToken(refreshToken, data, t) ==
  [ accessToken |-> data.access_token,
    refreshToken |-> IF Truthy(data.refresh_token)
                     THEN data.refresh_token
                     ELSE Some(refreshToken),
    expiresAt |-> ExpiresAt(data, t) ]

\* ------------------------------------------------------- credential store
\* A token is a JavaScript string, kept as its sequence of UTF-16 code units:
\* a letter, a space and an unpaired surrogate.
Chars == { "a", " ", "D800" }
Tokens == UNION { [ 1 .. n -> Chars ] : n \in 0 .. MaxTokenLen }

\* String.prototype.trim
RECURSIVE TrimStart(_)
TrimStart(s) == IF s # << >> /\ Head(s) = " " THEN TrimStart(Tail(s)) ELSE s

RECURSIVE TrimEnd(_)
TrimEnd(s) ==
  IF s # << >> /\ s[Len(s)] = " " THEN TrimEnd(SubSeq(s, 1, Len(s) - 1)) ELSE s

Trim(s) == TrimEnd(TrimStart(s))

\* Buffer.from(string): the UTF-8 bytes of a string; an unpaired surrogate is
\* encoded as U+FFFD (EF BF BD).
RECURSIVE Utf8Encode(_)
Utf8Encode(s) ==
  IF s = << >> THEN << >>
  ELSE ( CASE Head(s) = "a" -> << 97 >>
           [] Head(s) = " " -> << 32 >>
           [] OTHER -> << 239, 191, 189 >> ) \o Utf8Encode(Tail(s))

\* buffer.toString("utf-8"): bytes that are no UTF-8 sequence decode to U+FFFD.
RECURSIVE Utf8Decode(_)
Utf8Decode(b) ==
  IF b = << >> THEN << >>
  ELSE IF Len(b) >= 3 /\ SubSeq(b, 1, 3) = << 239, 191, 189 >>
  THEN << "FFFD" >> \o Utf8Decode(SubSeq(b, 4, Len(b)))
  ELSE IF Head(b) = 97 THEN << "a" >> \o Utf8Decode(Tail(b))
  ELSE IF Head(b) = 32 THEN << " " >> \o Utf8Decode(Tail(b))
  ELSE IF Head(b) < 128 THEN << "U+" \o ToString(Head(b)) >> \o Utf8Decode(Tail(b))
  ELSE << "FFFD" >> \o Utf8Decode(Tail(b))

\* buffer.toString("base64"): a base64 string is kept as the sequence of the
\* indices of its characters in the base64 alphabet, 64 standing for "=".
RECURSIVE Base64Encode(_)
Base64Encode(b) ==
  IF b = << >> THEN << >>
  ELSE IF Len(b) = 1
  THEN << b[1] \div 4, (b[1] % 4) * 16, 64, 64 >>
  ELSE IF Len(b) = 2
  THEN << b[1] \div 4, (b[1] % 4) * 16 + b[2] \div 16, (b[2] % 16) * 4, 64 >>
  ELSE << b[1] \div 4, (b[1] % 4) * 16 + b[2] \div 16,
          (b[2] % 16) * 4 + b[3] \div 64, b[3] % 64 >>
       \o Base64Encode(SubSeq(b, 4, Len(b)))

\* Buffer.from(string, "base64")
RECURSIVE Base64Decode(_)
Base64Decode(c) ==
  IF Len(c) < 4 THEN << >>
  ELSE ( IF c[3] = 64
         THEN << c[1] * 4 + c[2] \div 16 >>
         ELSE IF c[4] = 64
         THEN << c[1] * 4 + c[2] \div 16, (c[2] % 16) * 16 + c[3] \div 4 >>
         ELSE << c[1] * 4 + c[2] \div 16, (c[2] % 16) * 16 + c[3] \div 4,
                 (c[3] % 4) * 64 + c[4] >> )
       \o Base64Decode(SubSeq(c, 5, Len(c)))

\* safeStorage.encryptString: the ciphertext is the version tag "v10" followed
\* by the plaintext bytes under the key; the key's action on a byte is kept as
\* its complement.
CipherTag == << 118, 49, 48 >>
encryptString(s) ==
  LET b == Utf8Encode(s) IN CipherTag \o [ i \in 1 .. Len(b) |-> 255 - b[i] ]

\* safeStorage.decryptString: it throws (ok is FALSE) on a buffer that is no
\* ciphertext.
decryptString(buf) ==
  IF Len(buf) >= 3 /\ SubSeq(buf, 1, 3) = CipherTag
  THEN LET c == SubSeq(buf, 4, Len(buf))
       IN  [ ok |-> TRUE, value |-> Utf8Decode([ i \in 1 .. Len(c) |-> 255 - c[i] ]) ]
  ELSE [ ok |-> FALSE, value |-> << >> ]

\* encryptToken(token) when safeStorage.isEncryptionAvailable() is sec
encryptToken(token, sec) ==
  IF ~sec
  THEN Base64Encode(Utf8Encode(token))
  ELSE Base64Encode(encryptString(token))

\* decryptToken(encrypted) when safeStorage.isEncryptionAvailable() is sec
decryptToken(encrypted, sec) ==
  IF ~sec
  THEN [ ok |-> TRUE, value |-> Utf8Decode(Base64Decode(encrypted)) ]
  ELSE decryptString(Base64Decode(encrypted))

\* The row storeOAuthToken inserts.
Row(token, sec) == [ id |-> "default", oauthToken |-> encryptToken(token, sec) ]

\* A storeOAuthToken that inserts without deleting the row already there.
storeKeepsPrior(tb, token, sec) == tb \cup { Row(token, sec) }

\* storeOAuthToken(oauthToken): delete the row with id "default", insert a new one.
storeOAuthToken(tb, token, sec) ==
  { r \in tb : r.id # "default" } \cup { Row(token, sec) }

\* The result of the getToken query on table tb.
getToken(tb, sec) ==
  LET creds == { r \in tb : r.id = "default" }
      cred == CHOOSE r \in creds : TRUE
  IN  IF creds = { } \/ cred.oauthToken = << >>
      THEN [ token |-> Null, error |-> Some("Not connected") ]
      ELSE LET d == decryptToken(cred.oauthToken, sec)
           IN  IF d.ok
               THEN [ token |-> Some(d.value), error |-> Null ]
               ELSE [ token |-> Null, error |-> Some("Failed to decrypt token") ]

\* The variables of the OAuth flow.
flowVars == << oauthState, pc, probe, listener, timer, promise, invoked,
               fetches, issued, extBusy, quiet, opened >>

\* A call of op with argument arg returned (or threw) out.
Returned(op, arg, out) ==
  last' = [ op |-> op, at |-> now, arg |-> arg, out |-> out ]

\* A procedure stores token and succeeds.
Stores(op, token) ==
  /\ table' = storeOAuthToken(table, token, secure)
  /\ Returned(op, token, "success")
  /\ UNCHANGED << flowVars, returned, setup, now, secure >>

\* importToken({ token: input }): the input has at least one character and is
\* trimmed before it is stored.
importToken(input) ==
  /\ Len(input) >= 1
  /\ Stores("importToken", Trim(input))

\* importSystemToken(), getExistingClaudeToken() returning sys.
importSystemToken(sys) ==
  IF sys = Null \/ Trim(sys[1]) = << >>
  THEN /\ Returned("importSystemToken", << >>, "No existing Claude token found")
       /\ UNCHANGED << flowVars, returned, setup, now, secure, table >>
  ELSE Stores("importSystemToken", Trim(sys[1]))

\* setupTokenWithCli(), runClaudeSetupToken resolving with res.
setupTokenWithCli(res) ==
  IF ~res.success
  THEN /\ Returned("setupTokenWithCli", << >>, "Failed to setup token with Claude CLI")
       /\ UNCHANGED << flowVars, returned, setup, now, secure, table >>
  ELSE Stores("setupTokenWithCli", res.token[1])

\* startLocalAuth() after its flow resolved with accessToken token.
StoreLoginToken(token) ==
  /\ token \in Tokens
  /\ Stores("startLocalAuth", token)

\* disconnect()
disconnect ==
  /\ table' = { r \in table : r.id # "default" }
  /\ Returned("disconnect", << >>, "success")
  /\ UNCHANGED << flowVars, returned, setup, now, secure >>

\* The getToken query.
GetToken ==
  /\ Returned("getToken", << >>, getToken(table, secure))
  /\ UNCHANGED << flowVars, returned, setup, now, secure, table >>

\* A call of isTokenExpired(e).
CheckTokenExpired(e) ==
  /\ Returned("isTokenExpired", e, isTokenExpired(now, e))
  /\ UNCHANGED << flowVars, returned, setup, now, secure, table >>

\* exchangeAuthorizationCode gets a successful response with body data.
ExchangeResponds(data) ==
  /\ Returned("exchangeAuthorizationCode", data, exchangeAuthorizationCode(data, now))
  /\ UNCHANGED << flowVars, returned, setup, now, secure, table >>

\* refreshOAuthToken(rt) gets a successful response with body data.
RefreshResponds(rt, data) ==
  /\ Returned("refreshOAuthToken", data, refreshOAuthToken(rt, data, now))
  /\ UNCHANGED << flowVars, returned, setup, now, secure, table >>

\* The operating system's secure storage becomes available or unavailable.
SecureStorageChanges ==
  /\ secure' = ~secure
  /\ UNCHANGED << flowVars, returned, setup, now, table, last >>

\* Time passes.
Tick ==
  /\ now < MaxNow
  /\ now' = now + 1
  /\ UNCHANGED << flowVars, returned, setup, secure, table, last >>

\* What getExistingClaudeToken() can return: accessToken || null.
SystemTokens == { Null } \cup { Some(t) : t \in Tokens \ { << >> } }

\* What runClaudeSetupToken can resolve with: success with the token read, or
\* a failure.
SetupResults ==
  { [ success |-> TRUE, token |-> s ] : s \in SystemTokens \ { Null } }
    \cup { [ success |-> FALSE, token |-> Null ] }

\* Some call of isTokenExpired.
CheckExpiry == \E e \in Expiries(now) : CheckTokenExpired(e)

UtilInit ==
  /\ oauthState = NullState
  /\ pc = [ f \in Flows |-> "idle" ]
  /\ probe = [ f \in Flows |-> NoProbe ]
  /\ listener = [ f \in Flows |-> NoListener ]
  /\ timer = [ f \in Flows |-> FALSE ]
  /\ promise = [ f \in Flows |-> NoPromise ]
  /\ invoked = [ f \in Flows |-> 0 ]
  /\ fetches = { }
  /\ issued = [ f \in Flows |-> 0 ]
  /\ extBusy = { }
  /\ quiet = FALSE
  /\ opened = NoneOpened
  /\ now = 0
  /\ secure \in BOOLEAN
  /\ table = { }
  /\ last = NoCall
  /\ returned = [ f \in Flows |-> FALSE ]
  /\ setup = NoSetup

UtilNext ==
  \/ \E input \in Tokens : importToken(input)
  \/ \E sys \in SystemTokens : importSystemToken(sys)
  \/ \E res \in SetupResults : setupTokenWithCli(res)
  \/ \E token \in Tokens : StoreLoginToken(token)
  \/ disconnect
  \/ GetToken
  \/ CheckExpiry
  \/ \E data \in TokenResponse : ExchangeResponds(data)
  \/ \E data \in TokenResponse : RefreshResponds("refreshA", data)
  \/ SecureStorageChanges
  \/ Tick

UtilSpec == UtilInit /\ [][UtilNext]_vars

\* ------------------------------------------------- claims on the utilities
\* C16: for every current time and every expiresAt, isTokenExpired is false
\* when expiresAt is absent, false when expiresAt is more than 5 minutes after
\* now, and true for every expiresAt at most 5 minutes after now, including
\* every timestamp in the past.
C16_ExpiredWithinBuffer ==
  last.op = "isTokenExpired"
    => last.out = ( /\ last.arg # Null
                    /\ last.arg[1] <= last.at + 5 * 60 * 1000 )

\* C17: for every token t, storing t and then reading it back with getToken
\* returns exactly t with no error, when secure storage is available for both
\* calls and when it is unavailable for both.
C17_StoreThenReadRoundTrip ==
  [][ \A t \in Tokens, w \in BOOLEAN :
        ( /\ GetToken
          /\ table = storeOAuthToken({ }, t, w)
          /\ secure = w )
        => last'.out = [ token |-> Some(t), error |-> Null ] ]_vars

\* C18: if the stored record was written with one primitive (secure storage or
\* the fallback encoding) and is read when only the other is in use, getToken
\* reports a decryption error with token null: it never returns a token
\* different from the one that was persisted. The empty token, whose record
\* getToken takes for no record at all, is the subject of C17.
C18_UnreadableRecordReported ==
  [][ \A t \in Tokens \ { << >> }, w \in BOOLEAN :
        ( /\ GetToken
          /\ table = storeOAuthToken({ }, t, w)
          /\ secure # w )
        => last'.out = [ token |-> Null, error |-> Some("Failed to decrypt token") ] ]_vars

\* The procedures that store a token.
StoreOps == { "startLocalAuth", "importToken", "importSystemToken", "setupTokenWithCli" }

\* C19: after any sequence of store and disconnect operations the credential
\* table holds at most one record, with id "default": a store leaves exactly
\* the token stored, replacing the prior one, a disconnect leaves none, also on
\* an empty table, and no other operation changes the table.
C19_SingleDefaultRecord ==
  [][ /\ Cardinality(table') <= 1
      /\ \A r \in table' : r.id = "default"
      /\ ( /\ last'.op \in StoreOps
           /\ last'.out = "success"
           /\ Stores(last'.op, last'.arg) )
         => table' = { Row(last'.arg, secure) }
      /\ (last'.op = "disconnect" /\ disconnect) => table' = { }
      /\ (last'.op \notin StoreOps \cup { "disconnect" }) => table' = table ]_vars

\* C19 witness: after time has passed the CLI setup stored a token, and the
\* table holds exactly the record of that token.
C19_Witness ==
  /\ last.op = "setupTokenWithCli"
  /\ last.out = "success"
  /\ last.at > 0
  /\ table = { Row(last.arg, secure) }

\* C20: for every successful token response, of a code exchange or of a
\* refresh, the normalized token set's expiresAt is absent exactly when the
\* response carries no expires_in, and otherwise is the current time plus
\* expires_in * 1000 ms, for every non-negative expires_in.
C20_ExpiresAtFromExpiresIn ==
  last.op \in { "exchangeAuthorizationCode", "refreshOAuthToken" }
    => last.out.expiresAt =
         ( IF last.arg.expires_in = Null
           THEN Null
           ELSE Some(last.at + last.arg.expires_in[1] * 1000) )

\* ------------------------------------------ claims on start-up and wiring
\* C21: findAvailablePort probes the ports of the range in ascending order,
\* starting at the lowest, and goes on to the next port only after a probe
\* failed to bind; a probe reports whether the port could be bound when it was
\* probed; the port returned is the one whose probe bound, so the lowest such
\* port; the no-available-port error is thrown exactly when the probe of the
\* last port failed, all lower ports having failed before it; and no probe
\* listener is bound once the function has returned or thrown.
C21_LowestBindablePort ==
  [][ \A f \in Flows :
        /\ (pc[f] = "idle" /\ pc'[f] = "alloc") => probe'[f].port = PortMin
        /\ (pc[f] = "alloc" /\ pc'[f] = "alloc" /\ probe'[f] # probe[f])
             => /\ ~probe[f].ok
                /\ probe'[f].port = probe[f].port + 1
        /\ (pc'[f] = "alloc" /\ probe'[f] # probe[f])
             => probe'[f].ok = ~PortInUse(listener', probe'[f].port, f)
        /\ (pc[f] = "alloc" /\ pc'[f] = "opening")
             => /\ probe[f].ok
                /\ oauthState'.port \in { Null, Some(probe[f].port) }
                /\ listener'[f].st = "bound" => listener'[f].port = probe[f].port
        /\ (pc[f] = "alloc" /\ pc'[f] = "done")
             => /\ ~probe[f].ok
                /\ probe[f].port = PortMax
                /\ promise'[f] = Rejected(ErrNoPorts)
        /\ (pc[f] = "alloc" /\ ~probe[f].ok /\ probe[f].port = PortMax
              /\ (pc'[f] # pc[f] \/ probe'[f] # probe[f]))
             => promise'[f] = Rejected(ErrNoPorts)
        /\ pc'[f] # "alloc" => ~probe'[f].ok ]_vars

\* C21 witness: the lowest port was held by another process, and a call's
\* server listens on a higher port, the one findAvailablePort returned.
C21_Witness ==
  \E f \in Flows :
    /\ PortMin \in extBusy
    /\ listener[f].st = "bound"
    /\ listener[f].port > PortMin
    /\ pc[f] = "opening"

\* Call f's start-up fails in this step: findAvailablePort throws, the callback
\* server emits an error after listen, or shell.openExternal rejects.
StartupFails(f) ==
  \/ pc[f] = "alloc" /\ pc'[f] = "done"
  \/ pc[f] = "alloc" /\ pc'[f] = "opening" /\ listener'[f].st = "none"
  \/ pc[f] = "opening" /\ pc'[f] = "done"

\* C22: if a flow's start-up fails (no free port, the callback server emitting
\* an error after listen, or the browser launch failing), the flow's promise is
\* rejected and afterwards no listener is bound, no timer is armed and
\* isOAuthFlowInProgress() is false.
C22_StartupFailureReleasesAll ==
  [][ \A f \in Flows :
        (StartupFails(f) /\ Pending(f))
        => /\ promise'[f].status = "rejected"
           /\ \A g \in Flows : listener'[g].st # "bound" /\ ~timer'[g]
           /\ oauthState'.server = Null ]_vars

\* C23: in every flow the steps occur in the order: session record torn down,
\* port allocated, PKCE and CSRF state generated, listener started on the
\* allocated port, timeout armed, browser opened. The browser is opened only in
\* the step that follows the port allocation of a call, in which the listener
\* has been started on the allocated port and the timeout armed (unless the
\* listener's bind failed, which ends the flow), and the redirect_uri of the
\* URL opened names the port that listener was started on, with the state and
\* the challenge generated for that call.
C23_StepOrderAndRedirectPort ==
  [][ /\ \A f \in Flows :
           /\ (pc[f] = "idle" /\ pc'[f] # "idle")
                => pc'[f] = "alloc" /\ oauthState' = NullState
           /\ (pc[f] # "opening" /\ pc'[f] = "opening")
                => /\ pc[f] = "alloc" /\ probe[f].ok
                   /\ opened'[f] # Null
                   /\ opened'[f][1].redirect_uri = RedirectUri(probe[f].port)
                   /\ opened'[f][1].state = StateOf(f)
                   /\ opened'[f][1].code_challenge = generatePKCE(f).challenge
                   /\ \/ /\ listener'[f] = Bound(probe[f].port)
                         /\ timer'[f]
                         /\ oauthState'.server = Some(f)
                         /\ oauthState'.port = Some(probe[f].port)
                         /\ oauthState'.state = Some(opened'[f][1].state)
                         /\ oauthState'.timeoutId = Some(f)
                      \/ /\ listener'[f].st = "none"
                         /\ promise'[f] = Rejected(ErrServer)
      /\ opened' # NoneOpened
           => \E f \in Flows :
                /\ pc[f] = "alloc" /\ pc'[f] = "opening"
                /\ \A g \in Flows \ { f } : opened'[g] = Null ]_vars

\* C23 witness: a call's browser was opened on a URL whose redirect_uri names
\* the port, above the first of the range, that its listener is bound to, with
\* its timeout armed.
C23_Witness ==
  \E f \in Flows :
    /\ pc[f] = "opening"
    /\ listener[f].st = "bound"
    /\ listener[f].port > PortMin
    /\ timer[f]
    /\ opened[f] # Null
    /\ opened[f][1].state = StateOf(f)
    /\ opened[f][1].redirect_uri = RedirectUri(listener[f].port)

\* ------------------------------------------------- system credential sources
\* The claudeAiOauth objects a credential document may hold; the object can
\* carry members the reader does not copy.
OauthObjects ==
  { [ accessToken |-> "tokenA", refreshToken |-> Some("refreshA"),
      expiresAt |-> Some(1), scopes |-> Some("user:inference"),
      subscriptionType |-> "pro" ],
    [ accessToken |-> "tokenB", refreshToken |-> Null,
      expiresAt |-> Null, scopes |-> Null,
      subscriptionType |-> "max" ] }

\* The texts a command prints or a file holds: nothing, something that is no
\* JSON, or a JSON document (the literal null, an object without claudeAiOauth,
\* an object with it), with or without white space around it.
NoDoc == [ isNull |-> FALSE, claudeAiOauth |-> Null ]
Bodies ==
  { [ kind |-> "empty", doc |-> NoDoc ], [ kind |-> "garbage", doc |-> NoDoc ],
    [ kind |-> "json", doc |-> [ isNull |-> TRUE, claudeAiOauth |-> Null ] ],
    [ kind |-> "json", doc |-> NoDoc ] }
  \cup { [ kind |-> "json", doc |-> [ isNull |-> FALSE, claudeAiOauth |-> Some(o) ] ] :
           o \in OauthObjects }
Texts == [ ws : BOOLEAN, body : Bodies ]

\* What reading a source gives: the command exits non-zero or the file does not
\* exist (ok is FALSE), or a text.
Readings ==
  { [ ok |-> FALSE, text |-> [ ws |-> FALSE, body |-> [ kind |-> "empty", doc |-> NoDoc ] ] ] }
  \cup { [ ok |-> TRUE, text |-> t ] : t \in Texts }

\* String.prototype.trim on a text.
TrimText(t) == [ t EXCEPT !.ws = FALSE ]

\* JavaScript truthiness of a string.
NonEmptyText(t) == t.ws \/ t.body.kind # "empty"

\* JSON.parse: it throws (ok is FALSE) on a text that is no JSON document;
\* white space around a document is allowed.
JsonParse(t) == [ ok |-> t.body.kind = "json", value |-> t.body.doc ]

\* The credential object the readers build from credentials.claudeAiOauth.
Credential(o) ==
  [ accessToken |-> o.accessToken, refreshToken |-> o.refreshToken,
    expiresAt |-> o.expiresAt, scopes |-> o.scopes ]

\* JSON.parse(text) followed by the test of credentials.claudeAiOauth, inside
\* the reader's try block: a parse error, and the property access on null,
\* throw and are caught.
FromJson(t) ==
  LET p == JsonParse(t)
  IN  IF ~p.ok \/ p.value.isNull THEN Null
      ELSE IF p.value.claudeAiOauth # Null
      THEN Some(Credential(p.value.claudeAiOauth[1]))
      ELSE Null

\* execSync(command).trim() and what the reader's try block makes of it.
FromCommand(r) ==
  IF ~r.ok THEN Null
  ELSE LET result == TrimText(r.text)
       IN  IF NonEmptyText(result) THEN FromJson(result) ELSE Null

\* existsSync, readFileSync and JSON.parse of ~/.claude/.credentials.json
FromFile(r) == IF ~r.ok THEN Null ELSE FromJson(r.text)

readFromMacOSKeychain(env) == FromCommand(env.security)

readFromWindowsCredentialManager(env) == FromFile(env.file)

\* A readFromLinuxSecretService that gives up when secret-tool gave nothing.
readFromSecretToolOnly(env) == FromCommand(env.secretTool)

readFromLinuxSecretService(env) ==
  LET c == FromCommand(env.secretTool)
  IN  IF c # Null THEN c ELSE FromCommand(env.pass)

readFromCredentialsFile(env) == FromFile(env.file)

readFromKeychain(env) ==
  IF env.platform = "darwin" THEN readFromMacOSKeychain(env)
  ELSE IF env.platform = "win32" THEN readFromWindowsCredentialManager(env)
  ELSE IF env.platform = "linux" THEN readFromLinuxSecretService(env)
  ELSE Null

getExistingClaudeCredentials(env) ==
  LET keychainCreds == readFromKeychain(env)
  IN  IF keychainCreds # Null THEN keychainCreds ELSE readFromCredentialsFile(env)

\* The machines getExistingClaudeCredentials may run on.
Platforms == { "darwin", "win32", "linux", "freebsd" }
Envs ==
  [ platform : Platforms, security : Readings, secretTool : Readings,
    pass : Readings, file : Readings ]

\* --------------------------------------------------------------- PKCE
MaxSeeds == 2

\* crypto.randomBytes(32)
VerifierBytes == 32

\* The values crypto.randomBytes(32) may return: sequences of 32 bytes.
RandomInputs ==
  { [ i \in 1 .. VerifierBytes |-> (k * i + c) % 256 ] :
      k \in 0 .. MaxSeeds, c \in { 0, 62, 255 } }

\* buffer.toString("base64url"): base64 without the padding; a string of the
\* base64url alphabet is kept as the indices of its characters in it.
Base64UrlEncode(b) == SelectSeq(Base64Encode(b), LAMBDA c : c # 64)

\* Buffer.from(string, "base64url")
Base64UrlDecode(c) ==
  Base64Decode(c \o [ i \in 1 .. ((4 - (Len(c) % 4)) % 4) |-> 64 ])

\* The ASCII code of the character of the base64url alphabet with index i:
\* A-Z, a-z, 0-9, "-" and "_".
Base64UrlChar(i) ==
  IF i < 26 THEN 65 + i
  ELSE IF i < 52 THEN 97 + (i - 26)
  ELSE IF i < 62 THEN 48 + (i - 52)
  ELSE IF i = 62 THEN 45
  ELSE 95

\* The bytes hash.update(string) feeds to the hash: the UTF-8 encoding of the
\* string, for a base64url string its ASCII codes.
Utf8OfBase64Url(c) == [ i \in 1 .. Len(c) |-> Base64UrlChar(c[i]) ]

\* crypto.createHash("sha256").update(m).digest(): SHA-256 is kept as a
\* collision-free function of the message; which digest a message has plays no
\* role, only that different messages have different digests.
Sha256(m) == << Len(m) >> \o [ i \in 1 .. Len(m) |-> 255 - m[i] ]

\* A generatePKCE that hashes the random bytes instead of the verifier string.
pkceHashesRandomBytes(random) ==
  [ verifier |-> Base64UrlEncode(random),
    challenge |-> Base64UrlEncode(Sha256(random)) ]

\* generatePKCE() when crypto.randomBytes(32) returns random.
pkceFromRandom(random) ==
  LET verifier == Base64UrlEncode(random)
      hash == Sha256(Utf8OfBase64Url(verifier))
  IN  [ verifier |-> verifier, challenge |-> Base64UrlEncode(hash) ]

\* ------------------------------------------------ token endpoint requests
\* The form body exchangeAuthorizationCode posts to the token endpoint.
ExchangeBody(params) ==
  [ grant_type |-> "authorization_code", code |-> params.code,
    client_id |-> OAUTH_CLIENT_ID, redirect_uri |-> params.redirectUri,
    code_verifier |-> params.codeVerifier ]

\* The form body refreshOAuthToken(refreshToken) posts to the token endpoint.
RefreshBody(refreshToken) ==
  [ grant_type |-> "refresh_token", refresh_token |-> refreshToken,
    client_id |-> "claude-desktop" ]

\* The parameters exchangeCodeForTokens can pass, and the refresh tokens.
ExchangeParams ==
  [ code : { << "c" >> }, redirectUri : { RedirectUri(p) : p \in Ports },
    codeVerifier : Flows ]
RefreshTokens == { "refreshA", "refreshB" }

\* ------------------------------------------------- calls of the pure helpers
\* A call about to be made: of function fn with the given input.
Call(fn, input) ==
  [ op |-> "call", at |-> 0, arg |-> [ fn |-> fn, input |-> input ], out |-> << >> ]

\* The call getExistingClaudeCredentials() on the machine that was drawn.
GetExistingClaudeCredentials ==
  /\ last.op = "call"
  /\ last.arg.fn = "getExistingClaudeCredentials"
  /\ Returned("getExistingClaudeCredentials", last.arg.input,
              getExistingClaudeCredentials(last.arg.input))
  /\ UNCHANGED << flowVars, returned, setup, now, secure, table >>

\* The call generatePKCE() with the random bytes that were drawn.
GeneratePKCE ==
  /\ last.op = "call"
  /\ last.arg.fn = "generatePKCE"
  /\ Returned("generatePKCE", last.arg.input, pkceFromRandom(last.arg.input))
  /\ UNCHANGED << flowVars, returned, setup, now, secure, table >>

\* exchangeAuthorizationCode(params) posts its request.
ExchangeSends ==
  /\ last.op = "call"
  /\ last.arg.fn = "exchangeAuthorizationCode"
  /\ Returned("exchangeRequest", last.arg.input, ExchangeBody(last.arg.input))
  /\ UNCHANGED << flowVars, returned, setup, now, secure, table >>

\* refreshOAuthToken(refreshToken) posts its request.
RefreshSends ==
  /\ last.op = "call"
  /\ last.arg.fn = "refreshOAuthToken"
  /\ Returned("refreshRequest", last.arg.input, RefreshBody(last.arg.input))
  /\ UNCHANGED << flowVars, returned, setup, now, secure, table >>

\* The call that is about to be made is one of the calls in LibCalls.
LibCalls ==
  \/ last \in { Call("getExistingClaudeCredentials", env) : env \in Envs }
  \/ last \in { Call("generatePKCE", random) : random \in RandomInputs }
  \/ last \in { Call("exchangeAuthorizationCode", params) : params \in ExchangeParams }
  \/ last \in { Call("refreshOAuthToken", rt) : rt \in RefreshTokens }

LibInit ==
  /\ oauthState = NullState
  /\ pc = [ f \in Flows |-> "idle" ]
  /\ probe = [ f \in Flows |-> NoProbe ]
  /\ listener = [ f \in Flows |-> NoListener ]
  /\ timer = [ f \in Flows |-> FALSE ]
  /\ promise = [ f \in Flows |-> NoPromise ]
  /\ invoked = [ f \in Flows |-> 0 ]
  /\ fetches = { }
  /\ issued = [ f \in Flows |-> 0 ]
  /\ extBusy = { }
  /\ quiet = FALSE
  /\ opened = NoneOpened
  /\ now = 0
  /\ secure = TRUE
  /\ table = { }
  /\ LibCalls
  /\ returned = [ f \in Flows |-> FALSE ]
  /\ setup = NoSetup

LibNext ==
  \/ GetExistingClaudeCredentials
  \/ GeneratePKCE
  \/ ExchangeSends
  \/ RefreshSends

LibSpec == LibInit /\ [][LibNext]_vars

\* --------------------------------------------- claims on the pure helpers
\* A source yields parseable JSON containing a claudeAiOauth object.
Usable(r) ==
  /\ r.ok
  /\ r.text.body.kind = "json"
  /\ ~r.text.body.doc.isNull
  /\ r.text.body.doc.claudeAiOauth # Null

\* The sources in the order they are to be consulted on a platform.
SourceOrder(env) ==
  CASE env.platform = "linux" -> << env.secretTool, env.pass, env.file >>
    [] env.platform = "darwin" -> << env.security, env.file >>
    [] env.platform = "win32" -> << env.file, env.file >>
    [] OTHER -> << env.file >>

\* The credential of the first usable source of a list, if any.
RECURSIVE FirstUsable(_)
FirstUsable(srcs) ==
  IF srcs = << >> THEN Null
  ELSE IF Usable(Head(srcs))
  THEN LET o == Head(srcs).text.body.doc.claudeAiOauth[1]
       IN  Some([ k \in { "accessToken", "refreshToken", "expiresAt", "scopes" } |-> o[k] ])
  ELSE FirstUsable(Tail(srcs))

\* C24: getExistingClaudeCredentials returns the credential of the first
\* source, in the order platform store (on Linux: secret-tool, then pass) and
\* then the credentials file, that yields parseable JSON containing a
\* claudeAiOauth object, and null when no source does; a command failure, a
\* missing entry or a parse error in one source does not keep the later sources
\* from being tried.
C24_FirstUsableSource ==
  last.op = "getExistingClaudeCredentials"
    => last.out = FirstUsable(SourceOrder(last.arg))

\* C24 witness: on Linux secret-tool failed and pass printed something that is
\* no JSON, and the credential of the file was returned.
C24_Witness ==
  /\ last.op = "getExistingClaudeCredentials"
  /\ last.arg.platform = "linux"
  /\ ~last.arg.secretTool.ok
  /\ last.arg.pass.ok /\ last.arg.pass.text.body.kind = "garbage"
  /\ last.out # Null
  /\ last.out[1].accessToken = "tokenA"

\* C25 as worded: for every 32-byte random input, generatePKCE returns a
\* verifier that is the base64url encoding of those bytes and a challenge equal
\* to base64url(SHA-256(base64url-decoded verifier)): the digest is taken over
\* the verifier's raw bytes.
C25_ChallengeOverDecodedVerifier ==
  last.op = "generatePKCE"
    => /\ last.out.verifier = Base64UrlEncode(last.arg)
       /\ last.out.challenge =
            Base64UrlEncode(Sha256(Base64UrlDecode(last.out.verifier)))

\* C25, amended: the verifier is the base64url encoding of the 32 random bytes
\* (43 characters, no padding, decoding back to those bytes) and the challenge
\* is base64url(SHA-256(ASCII(verifier))): the digest is taken over the
\* characters of the verifier string, as RFC 7636 prescribes, and so differs
\* from the digest of the random bytes.
C25_ChallengeOverVerifierText ==
  last.op = "generatePKCE"
    => /\ Len(last.arg) = 32
       /\ Len(last.out.verifier) = 43
       /\ \A i \in 1 .. 43 : last.out.verifier[i] \in 0 .. 63
       /\ Base64UrlDecode(last.out.verifier) = last.arg
       /\ last.out.challenge =
            Base64UrlEncode(Sha256([ i \in 1 .. 43 |->
                                      Base64UrlChar(last.out.verifier[i]) ]))
       /\ last.out.challenge # Base64UrlEncode(Sha256(last.arg))

\* C25 witness: generatePKCE returned for random bytes that are not all equal.
C25_Witness ==
  /\ last.op = "generatePKCE"
  /\ last.arg[1] # last.arg[2]
  /\ Len(last.out.challenge) > 0

\* C26: the client identifier sent in a refresh-token request is the same fixed
\* client identifier that is sent in the authorization URL and in the
\* authorization-code exchange.
C26_RefreshUsesSameClientId ==
  last.op = "refreshRequest"
    => /\ \A params \in ExchangeParams :
            last.out.client_id = ExchangeBody(params).client_id
       /\ \A f \in Flows, port \in Ports :
            last.out.client_id =
              AuthorizationUrl(port, StateOf(f), generatePKCE(f)).client_id

\* C27: every token-exchange request carries the PKCE verifier and the
\* redirect-URI port of the session whose csrfState the triggering callback
\* matched: the verifier generated by the call that generated that state, and
\* the port that call's listener is bound to, never those of another session.
C27_ExchangeCarriesOwnSession ==
  [][ (issued' # issued \/ ~(fetches' \subseteq fetches))
      => \E g \in Flows :
           /\ \A q \in Queries : handleCallback(q) => q.state = Some(StateOf(g))
           /\ \E q \in Queries : handleCallback(q)
           /\ issued'[g] = issued[g] + 1
           /\ \A e \in fetches' \ fetches :
                /\ e.codeVerifier = generatePKCE(g).verifier
                /\ listener[g] = Bound(e.port)
                /\ oauthState.port = Some(e.port) ]_vars

\* C27 witness: after the first session was replaced, an exchange is in flight
\* that carries the second session's verifier and the port its listener is
\* bound to.
C27_Witness ==
  \E e \in fetches :
    /\ e.codeVerifier = generatePKCE(2).verifier
    /\ oauthState.state = Some(StateOf(2))
    /\ listener[2] = Bound(e.port)
    /\ pc[1] = "opening"

\* ------------------------------------------------------- startLocalAuth
\* The characters of an access token the flow resolved with.
AccessTokenChars(accessToken) ==
  IF accessToken = "tokenA" THEN << "a" >> ELSE << "a", "a" >>

ErrInProgress == << "OAuth flow already in progress" >>

\* startLocalAuth(): isOAuthFlowInProgress() is false and startOAuthFlow() is
\* called.
startLocalAuth(f) ==
  /\ ~isOAuthFlowInProgress
  /\ startOAuthFlow(f)

\* startLocalAuth(): isOAuthFlowInProgress() is true and the mutation throws.
LocalAuthRefused ==
  /\ isOAuthFlowInProgress
  /\ Returned("startLocalAuth", << >>, ErrInProgress)
  /\ UNCHANGED << flowVars, returned, setup, now, secure, table >>

\* A startLocalAuth continuation that stores whatever the flow settled with.
LocalAuthStoresAlways(f) ==
  /\ Settled(f)
  /\ ~returned[f]
  /\ returned' = [ returned EXCEPT ![f] = TRUE ]
  /\ table' = storeOAuthToken(table, AccessTokenChars(promise[f].value.accessToken),
                              secure)
  /\ Returned("startLocalAuth", << >>, promise[f].error)
  /\ UNCHANGED << flowVars, setup, now, secure >>

\* startLocalAuth() after the await of startOAuthFlow(): the token is stored
\* when the promise was resolved, and the error is thrown again when it was
\* rejected.
LocalAuthReturns(f) ==
  /\ Settled(f)
  /\ ~returned[f]
  /\ returned' = [ returned EXCEPT ![f] = TRUE ]
  /\ IF promise[f].status = "resolved"
     THEN LET token == AccessTokenChars(promise[f].value.accessToken)
          IN  /\ table' = storeOAuthToken(table, token, secure)
              /\ Returned("startLocalAuth", token, "success")
     ELSE /\ table' = table
          /\ Returned("startLocalAuth", << >>, promise[f].error)
  /\ UNCHANGED << flowVars, setup, now, secure >>

AuthInit ==
  /\ oauthState = NullState
  /\ pc = [ f \in Flows |-> "idle" ]
  /\ probe = [ f \in Flows |-> NoProbe ]
  /\ listener = [ f \in Flows |-> NoListener ]
  /\ timer = [ f \in Flows |-> FALSE ]
  /\ promise = [ f \in Flows |-> NoPromise ]
  /\ invoked = [ f \in Flows |-> 0 ]
  /\ fetches = { }
  /\ issued = [ f \in Flows |-> 0 ]
  /\ extBusy \in { { }, Ports }
  /\ quiet = FALSE
  /\ opened = NoneOpened
  /\ now = 0
  /\ secure = TRUE
  /\ table = { Row(<< "a" >>, TRUE) }
  /\ last = NoCall
  /\ returned = [ f \in Flows |-> FALSE ]
  /\ setup = NoSetup

\* The reaction to a settled promise is a microtask: it runs before any other
\* event is handled.
ReturnDue == \E f \in Flows : Settled(f) /\ ~returned[f]

AuthNext ==
  \/ \E f \in Flows : LocalAuthReturns(f)
  \/ ~ReturnDue /\ \E f \in Flows : startLocalAuth(f)
  \/ ~ReturnDue /\ LocalAuthRefused
  \/ ~ReturnDue /\ \E f \in Flows : ProbeNextPort(f)
  \/ ~ReturnDue /\ \E f \in Flows : NoAvailablePort(f)
  \/ ~ReturnDue /\ \E f \in Flows, seized \in BOOLEAN : PortAllocated(f, seized)
  \/ ~ReturnDue /\ \E f \in Flows : OpenExternalFails(f)
  \/ ~ReturnDue /\ \E f \in Flows : TimeoutFire(f)
  \/ ~ReturnDue /\ cancelOAuthFlow
  \/ ~ReturnDue /\ Callback
  \/ ~ReturnDue /\ ExchangeDone

AuthSpec == AuthInit /\ [][AuthNext]_vars

\* C28: startLocalAuth writes the credential record only after its OAuth flow
\* resolved with a token set, and then stores that token; when the flow was
\* rejected the credential record is left exactly as it was and the mutation
\* fails with the flow's error message.
C28_StoreOnlyAfterResolve ==
  [][ /\ \A f \in Flows :
           (returned'[f] /\ ~returned[f])
           => /\ Settled(f)
              /\ last'.op = "startLocalAuth"
              /\ IF promise[f].status = "resolved"
                 THEN table' = { Row(last'.arg, secure) }
                 ELSE /\ table' = table
                      /\ last'.out = promise[f].error
      /\ table' # table
           => \E f \in Flows :
                /\ returned'[f] /\ ~returned[f]
                /\ promise[f].status = "resolved" ]_vars

\* C28 witness: a flow was cancelled, its mutation failed with the cancellation
\* error and the record stored earlier is still the table's only row.
C28_Witness ==
  \E f \in Flows :
    /\ returned[f]
    /\ promise[f] = Rejected(ErrCancelled)
    /\ last.op = "startLocalAuth"
    /\ last.out = ErrCancelled
    /\ table = { Row(<< "a" >>, TRUE) }

\* C29: while an earlier startLocalAuth call is still unsettled, at any point of
\* its flow including port allocation, a further startLocalAuth call is refused
\* with "OAuth flow already in progress": no further flow is started, and the
\* refusal leaves the earlier flow's listener, timer and pending promise
\* untouched.
C29_OverlappingCallRefused ==
  [][ (\E g \in Flows : Pending(g))
      => /\ \A f \in Flows : pc[f] = "idle" => pc'[f] = "idle"
         /\ (last'.op = "startLocalAuth" /\ returned' = returned /\ last' # last)
              => UNCHANGED << listener, timer, promise >> ]_vars

\* ------------------------------------------------- runClaudeSetupToken
maxAttempts == 60

\* getExistingClaudeToken(): creds?.accessToken || null.
getExistingClaudeToken(creds) ==
  IF creds = Null \/ creds[1] = << >> THEN Null ELSE creds

\* resolve(value): only the first call settles the promise.
SetupResolve(s, value) ==
  IF s.result = Null THEN [ s EXCEPT !.result = Some(value) ] ELSE s

SetupSuccess(token) == [ success |-> TRUE, token |-> token, error |-> "" ]
SetupFailure(error) == [ success |-> FALSE, token |-> Null, error |-> error ]
ErrSpawn == "Failed to open terminal: "
ErrSetupTimeout ==
  "Authentication timed out. Please run \"claude setup-token\" in your terminal manually."

\* The body of the promise executor: the first status, the spawn of the
\* terminal, the second status and setInterval.
runClaudeSetupToken ==
  /\ setup.child = "none"
  /\ setup' = [ setup EXCEPT
                  !.statuses = << "Opening terminal for authentication...",
                                  "Waiting for authentication to complete..." >>,
                  !.child = "spawned",
                  !.attempts = 0,
                  !.interval = TRUE ]
  /\ UNCHANGED << flowVars, returned, now, secure, table, last >>

\* child.on('error'): the terminal could not be spawned. Node reports it before
\* any timer of the interval runs.
SpawnError ==
  /\ setup.child = "spawned"
  /\ setup.attempts = 0
  /\ setup' = SetupResolve([ setup EXCEPT !.child = "failed" ],
                           SetupFailure(ErrSpawn))
  /\ UNCHANGED << flowVars, returned, now, secure, table, last >>

\* The callback of setInterval.
PollTick ==
  /\ setup.interval
  /\ LET s1 == [ setup EXCEPT !.attempts = @ + 1 ]
         token == getExistingClaudeToken(setup.creds)
     IN  setup' =
           IF token # Null
           THEN SetupResolve([ s1 EXCEPT !.interval = FALSE,
                                         !.statuses = Append(@, "Authentication complete!") ],
                             SetupSuccess(token))
           ELSE IF s1.attempts >= maxAttempts
           THEN SetupResolve([ s1 EXCEPT !.interval = FALSE ],
                             SetupFailure(ErrSetupTimeout))
           ELSE s1
  /\ UNCHANGED << flowVars, returned, now, secure, table, last >>

\* The credentials the system sources hold change: the user completes
\* `claude setup-token`, or logs out.
SetupCreds == { Null } \cup { Some(t) : t \in Tokens }
CredentialsChange(c) ==
  /\ setup.child # "none"
  /\ c # setup.creds
  /\ setup' = [ setup EXCEPT !.creds = c ]
  /\ UNCHANGED << flowVars, returned, now, secure, table, last >>

SetupInit ==
  /\ oauthState = NullState
  /\ pc = [ f \in Flows |-> "idle" ]
  /\ probe = [ f \in Flows |-> NoProbe ]
  /\ listener = [ f \in Flows |-> NoListener ]
  /\ timer = [ f \in Flows |-> FALSE ]
  /\ promise = [ f \in Flows |-> NoPromise ]
  /\ invoked = [ f \in Flows |-> 0 ]
  /\ fetches = { }
  /\ issued = [ f \in Flows |-> 0 ]
  /\ extBusy = { }
  /\ quiet = FALSE
  /\ opened = NoneOpened
  /\ now = 0
  /\ secure = TRUE
  /\ table = { }
  /\ last = NoCall
  /\ returned = [ f \in Flows |-> FALSE ]
  /\ \E c \in SetupCreds : setup = [ NoSetup EXCEPT !.creds = c ]

SetupNext ==
  \/ runClaudeSetupToken
  \/ SpawnError
  \/ PollTick
  \/ \E c \in SetupCreds : CredentialsChange(c)

SetupSpec == SetupInit /\ [][SetupNext]_vars

\* C30: runClaudeSetupToken's promise is resolved within at most 60 poll ticks,
\* with success on the first tick at which a system credential is readable and
\* otherwise with the timeout failure on the 60th; and once the promise has been
\* resolved by any path, the terminal failing to spawn included, the poll timer
\* is stopped: no later tick reads credentials or emits a status message.
C30_ResolvedWithinSixtyTicksTimerStopped ==
  [][ /\ setup'.attempts <= maxAttempts
      /\ setup'.attempts = setup.attempts + 1
           => LET token == getExistingClaudeToken(setup.creds)
              IN  /\ setup.result = Null
                  /\ setup'.result =
                       IF token # Null THEN Some(SetupSuccess(token))
                       ELSE IF setup'.attempts = maxAttempts
                       THEN Some(SetupFailure(ErrSetupTimeout))
                       ELSE Null
      /\ setup'.result # Null => ~setup'.interval
      /\ setup.result # Null
           => /\ setup'.attempts = setup.attempts
              /\ setup'.statuses = setup.statuses ]_vars

====
